---- MODULE Spec2Model ----
(***************************************************************************)
(* Model of the automaton backend of afdd_gui_equivalencia.py: the class   *)
(* DFA (is_complete, complete_with_sink, accepts), reconstruct_word and    *)
(* are_equivalent, driven as MainWindow drives them (parse_dfa completes   *)
(* each automaton, action_check_equivalence calls are_equivalent) and as a *)
(* library caller drives them (are_equivalent on freshly built automata).  *)
(*                                                                         *)
(* A Python str is modelled as the sequence of its characters, so an       *)
(* alphabet symbol is a non-empty sequence of characters, "".join is       *)
(* concatenation and accepts reads a word one character at a time.         *)
(***************************************************************************)
EXTENDS Integers, Sequences, FiniteSets, TLC

VARIABLES
    panel,          \* the two automata as built by DFA.__init__ (never changed)
    heap,           \* object id -> the DFA object's fields, mutated in place
    passed,         \* the two objects as they stood when are_equivalent was called
    pc,             \* position of the caller / of are_equivalent
    union_alphabet, \* the union set, as the sequence in which the for loop visits it
    queue,          \* deque of product pairs
    visited,        \* set of product pairs
    parent,         \* pair -> <<predecessor pair, symbol>>
    q1q2,           \* the pair (q1, q2) last taken from the queue
    result,         \* the returned tuple <<verdict, word>>
    skipped,        \* observation: the 'continue' of line 95 was taken
    appended,       \* observation: every pair ever put on the queue, in order
    dequeues        \* observation: number of popleft calls

vars == <<panel, heap, passed, pc, union_alphabet, queue, visited, parent,
          q1q2, result, skipped, appended, dequeues>>

----------------------------------------------------------------------------
(* Bounds of the input automata *)

\* transition lines typed in the two panels together
MaxTransitions == 3

\* An automaton has the start state q0 and at most one other state; the
\* code treats every label but the sink's name alike, so among plain labels
\* the choice of q0 as the start loses nothing.  With the two states the
\* completion may add, a search ranges over up to 3 x 3 product pairs.
StartLabel == "q0"

\* plain inputs: the other state is q1, the symbols are single characters
PlainLabel == "q1"
PlainSymbols == {<<"a">>, <<"b">>}

\* token inputs: one symbol is a token of two characters
TokenSymbols == {<<"a">>, <<"a", "b">>}

\* sink-label inputs: the user has named the other state like the sink
SinkLabel == "SINK_STATE"

None == "None"

\* are_equivalent has not returned
NoResult == <<>>

----------------------------------------------------------------------------
(* class DFA *)

MkDFA(states, alphabet, start_state, accept_states, transitions) ==
    [states |-> states, alphabet |-> alphabet, start_state |-> start_state,
     accept_states |-> accept_states, transitions |-> transitions]

HasTransition(d, q, a) == <<q, a>> \in DOMAIN d.transitions

IsComplete(d) ==
    \A q \in d.states : \A a \in d.alphabet : HasTransition(d, q, a)

SinkName == "SINK_STATE"

\* the loop of lines 41-43: self-loops of the sink, where missing
SinkLoops(d, sink) ==
    LET new == {<<sink, a>> : a \in d.alphabet} \ DOMAIN d.transitions
    IN  [k \in DOMAIN d.transitions \cup new |->
            IF k \in DOMAIN d.transitions THEN d.transitions[k] ELSE sink]

\* the loop of lines 44-47 over the states (the sink included)
FillMissing(states, alphabet, transitions, sink) ==
    LET new == (states \X alphabet) \ DOMAIN transitions
    IN  [k \in DOMAIN transitions \cup new |->
            IF k \in DOMAIN transitions THEN transitions[k] ELSE sink]

\* variant: the early return of lines 36-37 left out
CompleteWithSinkNoGuard(d) ==
    LET sink == SinkName
        st == d.states \cup {sink}
        t1 == SinkLoops(d, sink)
    IN  [d EXCEPT !.states = st,
                  !.transitions = FillMissing(st, d.alphabet, t1, sink)]

\* variant: an automaton that already holds the sink is taken to be complete
CompleteWithSinkOnce(d) ==
    IF IsComplete(d) \/ SinkName \in d.states THEN d
    ELSE CompleteWithSinkNoGuard(d)

CompleteWithSink(d) ==
    IF IsComplete(d) THEN d
    ELSE LET sink == SinkName
             st == d.states \cup {sink}
             t1 == SinkLoops(d, sink)
         IN  [d EXCEPT !.states = st,
                       !.transitions = FillMissing(st, d.alphabet, t1, sink)]

RECURSIVE AcceptsFrom(_, _, _, _)
AcceptsFrom(d, current, word, i) ==
    IF i > Len(word) THEN current \in d.accept_states
    ELSE IF ~HasTransition(d, current, <<word[i]>>) THEN FALSE
    ELSE AcceptsFrom(d, d.transitions[<<current, <<word[i]>>>>], word, i + 1)

Accepts(d, word) == AcceptsFrom(d, d.start_state, word, 1)

----------------------------------------------------------------------------
(* reconstruct_word *)

RECURSIVE WalkBack(_, _, _, _)
WalkBack(par, start, current, path) ==
    IF current = start THEN path
    ELSE IF current \notin DOMAIN par THEN path
    ELSE WalkBack(par, start, par[current][1], Append(path, par[current][2]))

RECURSIVE Reverse(_)
Reverse(s) == IF s = <<>> THEN <<>> ELSE Append(Reverse(Tail(s)), Head(s))

\* "".join(path): the symbols' characters, one after the other
RECURSIVE Join(_)
Join(path) == IF path = <<>> THEN <<>> ELSE Head(path) \o Join(Tail(path))

ReconstructPath(par, start, end) == Reverse(WalkBack(par, start, end, <<>>))

ReconstructWord(par, start, end) == Join(ReconstructPath(par, start, end))

----------------------------------------------------------------------------
(* are_equivalent *)

Range(s) == {s[i] : i \in DOMAIN s}

\* the orders in which a for loop may visit the set S
Orders(S) == {s \in [1..Cardinality(S) -> S] : Range(s) = S}

UnionAlphabet(d1, d2) == d1.alphabet \cup d2.alphabet

\* lines 71-75 on the objects r1 and r2 of heap h (r1 = r2: the same object)
\* variant: line 75 left out, only dfa1 is completed
CompleteBothOnlyFirst(h, r1, r2) ==
    LET ua == UnionAlphabet(h[r1], h[r2])
        h1 == [h EXCEPT ![r1].alphabet = ua]
        h2 == [h1 EXCEPT ![r2].alphabet = ua]
    IN  [h2 EXCEPT ![r1] = CompleteWithSink(h2[r1])]

CompleteBoth(h, r1, r2) ==
    LET ua == UnionAlphabet(h[r1], h[r2])
        h1 == [h EXCEPT ![r1].alphabet = ua]
        h2 == [h1 EXCEPT ![r2].alphabet = ua]
        h3 == [h2 EXCEPT ![r1] = CompleteWithSink(h2[r1])]
    IN  [h3 EXCEPT ![r2] = CompleteWithSink(h3[r2])]

StartPair(h, r1, r2) == <<h[r1].start_state, h[r2].start_state>>

\* lines 77-80: the locals of are_equivalent as the while loop is entered
InitLocals(h, r1, r2) ==
    [queue |-> <<StartPair(h, r1, r2)>>,
     visited |-> {StartPair(h, r1, r2)},
     parent |-> <<>>,
     q1q2 |-> None,
     result |-> NoResult,
     skipped |-> FALSE,
     appended |-> <<StartPair(h, r1, r2)>>,
     dequeues |-> 0]

\* dict.get: the destination, or None
Get(d, q, a) == IF HasTransition(d, q, a) THEN d.transitions[<<q, a>>] ELSE None

\* variant: queue.pop(), the queue used as a stack
PopRight(q) == <<q[Len(q)], SubSeq(q, 1, Len(q) - 1)>>

\* queue.popleft(): <<the pair taken, the rest>>
PopLeft(q) == <<Head(q), Tail(q)>>

\* variant: both memberships tested against dfa1.accept_states
DisagreeFirstOnly(d1, d2, q1, q2) ==
    (q1 \in d1.accept_states) # (q2 \in d1.accept_states)

\* lines 84-87
Disagree(d1, d2, q1, q2) == (q1 \in d1.accept_states) # (q2 \in d2.accept_states)

\* variant: queue.appendleft(pair)
EnqueueLeft(q, pair) == <<pair>> \o q

\* queue.append(pair), line 100
Enqueue(q, pair) == Append(q, pair)

\* variant: the visited test left out
NotVisitedNever(pair, seen) == TRUE

\* line 98
NotVisited(pair, seen) == pair \notin seen

\* lines 91-101: the for loop over union_alphabet, from its i-th symbol on
RECURSIVE ForSymbols(_, _, _, _, _, _)
ForSymbols(d1, d2, order, i, from, m) ==
    IF i > Len(order) THEN m
    ELSE LET a == order[i]
             next1 == Get(d1, from[1], a)
             next2 == Get(d2, from[2], a)
             pair == <<next1, next2>>
         IN  IF next1 = None \/ next2 = None
             THEN ForSymbols(d1, d2, order, i + 1, from, [m EXCEPT !.skipped = TRUE])
             ELSE IF NotVisited(pair, m.visited)
             THEN ForSymbols(d1, d2, order, i + 1, from,
                      [m EXCEPT !.visited = @ \cup {pair},
                                !.queue = Enqueue(@, pair),
                                !.appended = Append(@, pair),
                                !.parent = (pair :> <<from, a>>) @@ @])
             ELSE ForSymbols(d1, d2, order, i + 1, from, m)

\* lines 82-103: one pass of 'while queue', or the return after it
LoopIteration(h, r1, r2, order, m) ==
    IF m.queue = <<>> THEN [m EXCEPT !.result = <<TRUE, None>>]
    ELSE LET popped == PopLeft(m.queue)
             from == popped[1]
             m1 == [m EXCEPT !.queue = popped[2], !.q1q2 = from, !.dequeues = @ + 1]
         IN  IF Disagree(h[r1], h[r2], from[1], from[2])
             THEN [m1 EXCEPT !.result =
                      <<FALSE, ReconstructWord(m1.parent, StartPair(h, r1, r2), from)>>]
             ELSE ForSymbols(h[r1], h[r2], order, 1, from, m1)

\* the whole call, for a given visiting order: the locals at the return
RECURSIVE RunLoop(_, _, _, _, _)
RunLoop(h, r1, r2, order, m) ==
    IF m.result # NoResult THEN m
    ELSE RunLoop(h, r1, r2, order, LoopIteration(h, r1, r2, order, m))

AreEquivalent(h, r1, r2, order) ==
    LET hc == CompleteBoth(h, r1, r2)
    IN  RunLoop(hc, r1, r2, order, InitLocals(hc, r1, r2))

----------------------------------------------------------------------------
(* The input automata: every automaton that satisfies the data-model       *)
(* invariants, within the bounds.                                          *)

StateSets(other) == {{StartLabel}, {StartLabel, other}}

KeySets(S, A, n) == {K \in SUBSET (S \X A) : Cardinality(K) = n}

\* the valid automata over states S and alphabet A with n transitions
DFAsOver(S, A, n) ==
    UNION {{MkDFA(S, A, StartLabel, F, t) : F \in SUBSET S, t \in [K -> S]} :
           K \in KeySets(S, A, n)}

ValidDFAs(other, syms, n) ==
    UNION {DFAsOver(S, A, n) : S \in StateSets(other), A \in SUBSET syms}

Locals ==
    [queue |-> queue, visited |-> visited, parent |-> parent,
     q1q2 |-> q1q2, result |-> result,
     skipped |-> skipped, appended |-> appended, dequeues |-> dequeues]

SetLocals(m) ==
    /\ queue' = m.queue
    /\ visited' = m.visited
    /\ parent' = m.parent
    /\ q1q2' = m.q1q2
    /\ result' = m.result
    /\ skipped' = m.skipped
    /\ appended' = m.appended
    /\ dequeues' = m.dequeues

InitOver(other, syms) ==
    /\ \E n1 \in 0..MaxTransitions : \E n2 \in 0..(MaxTransitions - n1) :
          \E d1 \in ValidDFAs(other, syms, n1) : \E d2 \in ValidDFAs(other, syms, n2) :
              panel = <<d1, d2>>
    /\ heap = panel
    /\ passed = panel
    /\ pc = "built"
    /\ union_alphabet = <<>>
    /\ queue = <<>>
    /\ visited = {}
    /\ parent = <<>>
    /\ q1q2 = None
    /\ result = NoResult
    /\ skipped = FALSE
    /\ appended = <<>>
    /\ dequeues = 0

\* parse_dfa, from the DFA(...) it has built: line 298
ParseDfa1 ==
    /\ pc = "built"
    /\ heap' = [heap EXCEPT ![1] = CompleteWithSink(heap[1])]
    /\ pc' = "parsed1"
    /\ UNCHANGED <<panel, passed, union_alphabet, queue, visited, parent, q1q2, result,
                   skipped, appended, dequeues>>

ParseDfa2 ==
    /\ pc = "parsed1"
    /\ heap' = [heap EXCEPT ![2] = CompleteWithSink(heap[2])]
    /\ pc' = "parsed2"
    /\ UNCHANGED <<panel, passed, union_alphabet, queue, visited, parent, q1q2, result,
                   skipped, appended, dequeues>>

\* are_equivalent(d1, d2), lines 71-80; called on parsed automata (line 354)
\* or on automata as they were built
EnterAreEquivalent ==
    /\ pc \in {"built", "parsed2"}
    /\ passed' = heap
    /\ \E order \in Orders(UnionAlphabet(heap[1], heap[2])) : union_alphabet' = order
    /\ heap' = CompleteBoth(heap, 1, 2)
    /\ SetLocals(InitLocals(heap', 1, 2))
    /\ pc' = "bfs"
    /\ UNCHANGED panel

\* one pass of the while loop that expands the pair it takes
WhileExpand ==
    /\ pc = "bfs"
    /\ queue # <<>>
    /\ ~Disagree(heap[1], heap[2], PopLeft(queue)[1][1], PopLeft(queue)[1][2])
    /\ SetLocals(LoopIteration(heap, 1, 2, union_alphabet, Locals))
    /\ UNCHANGED <<panel, heap, passed, pc, union_alphabet>>

\* the pass that finds a disagreeing pair: return False, word
ReturnWitness ==
    /\ pc = "bfs"
    /\ queue # <<>>
    /\ Disagree(heap[1], heap[2], PopLeft(queue)[1][1], PopLeft(queue)[1][2])
    /\ SetLocals(LoopIteration(heap, 1, 2, union_alphabet, Locals))
    /\ pc' = "done"
    /\ UNCHANGED <<panel, heap, passed, union_alphabet>>

\* the queue is empty: return True, None
ReturnEquivalent ==
    /\ pc = "bfs"
    /\ queue = <<>>
    /\ SetLocals(LoopIteration(heap, 1, 2, union_alphabet, Locals))
    /\ pc' = "done"
    /\ UNCHANGED <<panel, heap, passed, union_alphabet>>

Next ==
    \/ ParseDfa1
    \/ ParseDfa2
    \/ EnterAreEquivalent
    \/ WhileExpand
    \/ ReturnWitness
    \/ ReturnEquivalent

Init == InitOver(PlainLabel, PlainSymbols)

InitTokens == InitOver(PlainLabel, TokenSymbols)

InitSinkLabel == InitOver(SinkLabel, PlainSymbols)

\* plain inputs
Spec == Init /\ [][Next]_vars

\* inputs with a two-character token in the alphabet
SpecTokens == InitTokens /\ [][Next]_vars

\* inputs with a user state named like the sink
SpecSinkLabel == InitSinkLabel /\ [][Next]_vars

----------------------------------------------------------------------------
(* Vocabulary of the properties *)

Done == pc = "done"
InCall == pc \in {"bfs", "done"}
Parsed(i) == IF i = 1 THEN pc \in {"parsed1", "parsed2"} ELSE pc = "parsed2"

Chars == {"a", "b"}

\* transitions is total over states x alphabet and closed in states
Total(d) ==
    /\ (d.states \X d.alphabet) \subseteq DOMAIN d.transitions
    /\ \A k \in DOMAIN d.transitions : d.transitions[k] \in d.states

Distinguished(d1, d2, p) == (p[1] \in d1.accept_states) # (p[2] \in d2.accept_states)

\* the product pairs that words of exactly k symbols reach in total automata
RECURSIVE Level(_, _, _, _)
Level(d1, d2, A, k) ==
    IF k = 0 THEN {<<d1.start_state, d2.start_state>>}
    ELSE {<<d1.transitions[<<p[1], a>>], d2.transitions[<<p[2], a>>]>> :
             p \in Level(d1, d2, A, k - 1), a \in A}

\* the product pair a sequence of symbols leads to, from pair p
RECURSIVE RunPath(_, _, _, _)
RunPath(d1, d2, p, path) ==
    IF path = <<>> THEN p
    ELSE RunPath(d1, d2, <<d1.transitions[<<p[1], Head(path)>>],
                           d2.transitions[<<p[2], Head(path)>>]>>, Tail(path))

\* the state accepts() is in after the characters of sym from q; None once it
\* has returned False for a missing transition
RECURSIVE AfterSymbol(_, _, _, _)
AfterSymbol(d, q, sym, i) ==
    IF i > Len(sym) \/ q = None THEN q
    ELSE AfterSymbol(d, Get(d, q, <<sym[i]>>), sym, i + 1)

RECURSIVE AcceptsPairs(_, _, _, _)
AcceptsPairs(d1, d2, A, S) ==
    LET T == S \cup {<<AfterSymbol(d1, p[1], a, 1), AfterSymbol(d2, p[2], a, 1)>> :
                        p \in S, a \in A}
    IN  IF T = S THEN S ELSE AcceptsPairs(d1, d2, A, T)

\* d1.accepts(w) = d2.accepts(w) for every word w over A, of any length
SameLanguage(d1, d2, A) ==
    \A p \in AcceptsPairs(d1, d2, A, {<<d1.start_state, d2.start_state>>}) :
        (p[1] \in d1.accept_states) = (p[2] \in d2.accept_states)

NoDuplicates(s) == \A i, j \in DOMAIN s : i # j => s[i] # s[j]

UnionSet == Range(union_alphabet)

\* the symbols on the predecessor chain of the pair that ended the search
WitnessPath == ReconstructPath(parent, StartPair(heap, 1, 2), q1q2)

\* the same call on the automata as they were passed, visiting in order ord
Rerun(r1, r2, ord) == AreEquivalent(passed, r1, r2, ord)

----------------------------------------------------------------------------
(* The claims *)

\* C1: are_equivalent returns True exactly when the two automata, as they
\* were passed in, accept the same words over the union alphabet.
C1_VerdictIffSameLanguage ==
    Done => (result[1] = SameLanguage(passed[1], passed[2], UnionSet))

\* C2: a returned witness w is accepted by exactly one of the two automata
\* as they stand after the call.
C2_WitnessDistinguishes ==
    (Done /\ result[1] = FALSE) =>
        Accepts(heap[1], result[2]) # Accepts(heap[2], result[2])

\* C3: the returned witness is the join of a shortest distinguishing sequence
\* of symbols: no sequence of fewer symbols leads the completed automata to a
\* pair that differs in acceptance, and the witness is empty exactly when the
\* start states differ in acceptance, whatever the order of the symbols.
C3_WitnessMinimal ==
    (Done /\ result[1] = FALSE) =>
        /\ result[2] = Join(WitnessPath)
        /\ RunPath(heap[1], heap[2], StartPair(heap, 1, 2), WitnessPath) = q1q2
        /\ Distinguished(heap[1], heap[2], q1q2)
        /\ \A k \in 0..(Len(WitnessPath) - 1) :
              \A p \in Level(heap[1], heap[2], UnionSet, k) :
                  ~Distinguished(heap[1], heap[2], p)
        /\ (result[2] = <<>>) <=>
              Distinguished(heap[1], heap[2], StartPair(heap, 1, 2))

C3_Witness ==
    /\ Done
    /\ result[1] = FALSE
    /\ Len(WitnessPath) >= 3
    /\ Cardinality(UnionSet) = 2

\* C4: complete_with_sink leaves accepts(w) unchanged for every word over the
\* automaton's alphabet, the sink it uses is not accepting, and no transition
\* that existed is changed.
C4_CompletionPreservesLanguage ==
    \A i \in {1, 2} : Parsed(i) =>
        /\ SameLanguage(panel[i], heap[i], panel[i].alphabet)
        /\ (heap[i] # panel[i] => SinkName \notin heap[i].accept_states)
        /\ \A k \in DOMAIN panel[i].transitions :
              heap[i].transitions[k] = panel[i].transitions[k]

\* C5: a second complete_with_sink right after a first changes nothing, and
\* complete_with_sink changes nothing on an automaton that is already complete.
C5_CompletionIdempotent ==
    /\ \A i \in {1, 2} : Parsed(i) =>
          /\ CompleteWithSink(heap[i]) = heap[i]
          /\ (Total(panel[i]) => heap[i] = panel[i])
    /\ InCall => \A i \in {1, 2} :
          /\ CompleteWithSink(heap[i]) = heap[i]
          /\ (Total([passed[i] EXCEPT !.alphabet = UnionSet])
                 => heap[i] = [passed[i] EXCEPT !.alphabet = UnionSet])

C5_Witness ==
    /\ pc = "parsed2"
    /\ heap[1] # panel[1]
    /\ heap[2] = panel[2]
    /\ panel[2].transitions # <<>>

\* C6: after complete_with_sink the transitions are total over states x
\* alphabet with every destination in states; after are_equivalent both
\* automata are total over the union alphabet and each has gained at most one
\* state since it was built, also when parse_dfa had completed it before.
C6_TotalAfterCompletion ==
    /\ \A i \in {1, 2} : Parsed(i) => Total(heap[i])
    /\ InCall => \A i \in {1, 2} :
          /\ heap[i].alphabet = UnionSet
          /\ Total(heap[i])
          /\ panel[i].states \subseteq heap[i].states
          /\ Cardinality(heap[i].states \ panel[i].states) <= 1

C6_Witness ==
    /\ Done
    /\ passed[1] # panel[1]
    /\ heap[1].transitions # passed[1].transitions
    /\ heap[1].states = passed[1].states

\* C7: the verdict of are_equivalent(B, A) is that of are_equivalent(A, B),
\* and are_equivalent(A, A) is True, for the same object passed twice and for
\* two equal automata.
C7_SymmetricReflexive ==
    /\ Done => \A ord \in Orders(UnionSet) : Rerun(2, 1, ord).result[1] = result[1]
    /\ pc \in {"built", "parsed2"} =>
          \A i \in {1, 2} : \A ord \in Orders(heap[i].alphabet) :
              /\ AreEquivalent(heap, i, i, ord).result[1] = TRUE
              /\ AreEquivalent(<<heap[i], heap[i]>>, 1, 2, ord).result[1] = TRUE

C7_Witness ==
    /\ Done
    /\ result[1] = FALSE
    /\ result[2] # <<>>
    /\ passed[1].states # passed[2].states

\* C8: no pair is put on the queue twice, every queued pair is in
\* A.states x B.states of the completed automata, the number of dequeues never
\* exceeds |A.states| * |B.states|, and the call returns (True, None) or
\* (False, word).
C8_EachPairOnce ==
    InCall =>
        /\ NoDuplicates(appended)
        /\ Range(appended) \subseteq heap[1].states \X heap[2].states
        /\ Range(appended) = visited
        /\ dequeues + Len(queue) = Len(appended)
        /\ dequeues <= Cardinality(heap[1].states) * Cardinality(heap[2].states)
        /\ (pc = "bfs" => result = NoResult)
        /\ (Done => \/ result[1] = TRUE /\ result[2] = None /\ queue = <<>>
                    \/ result[1] = FALSE /\ result[2] \in Seq(Chars))

C8_Witness ==
    /\ Done
    /\ Cardinality(heap[1].states) * Cardinality(heap[2].states) >= 4
    /\ dequeues = Cardinality(heap[1].states) * Cardinality(heap[2].states)

\* C9: during the search both lookups return a state for every pair taken
\* from the queue and every symbol of the union alphabet; the branch that
\* skips a symbol is never taken.
C9_NoLookupMisses ==
    /\ skipped = FALSE
    /\ InCall => \A p \in visited : \A a \in UnionSet :
          Get(heap[1], p[1], a) # None /\ Get(heap[2], p[2], a) # None

C9_Witness ==
    /\ Done
    /\ result[1] = TRUE
    /\ dequeues >= 3
    /\ ~Total([passed[2] EXCEPT !.alphabet = UnionSet])

\* C10 as stated: every visiting order of the union alphabet gives the same
\* verdict and the same witness string.
C10_SameResultAnyOrder ==
    Done => \A ord \in Orders(UnionSet) : Rerun(1, 2, ord).result = result

\* C10 amended: every visiting order gives the same verdict and a witness of
\* the same number of symbols.
C10_SameVerdictAndLength ==
    Done => \A ord \in Orders(UnionSet) :
        LET r == Rerun(1, 2, ord)
        IN  /\ r.result[1] = result[1]
            /\ (result[1] = FALSE =>
                   Len(ReconstructPath(r.parent, StartPair(passed, 1, 2), r.q1q2))
                       = Len(WitnessPath))

C10_Witness ==
    /\ Done
    /\ result[1] = FALSE
    /\ \E ord \in Orders(UnionSet) : Rerun(1, 2, ord).result[2] # result[2]

====
